---------------------------- MODULE Spec2Model ----------------------------
(***************************************************************************)
(* Model of the Memos MCP server (src/server.py): the tool dispatcher      *)
(* handle_call_tool, the identifier normalizers, the twelve request        *)
(* builders and the HTTP exchange each of them performs.                   *)
(*                                                                         *)
(* Conventions.  A Python dict is a function whose DOMAIN is the dict's    *)
(* key set.  Python None is absence from the domain: arguments.get(k) of a *)
(* missing key and a keyword argument left at its None default are both    *)
(* "k is not in the domain".  Strings are TLA+ strings, operated on with   *)
(* Len, SubSeq and \o.                                                     *)
(***************************************************************************)
EXTENDS Naturals, Sequences, FiniteSets, TLC

VARIABLES
    MEMOS_BASE_URL,   \* server.py:28, read once at import
    MEMOS_API_KEY,    \* server.py:29, read once at import
    pc,               \* position of the handler: "idle"; "awaiting", "done" in
                      \* handle_call_tool; "reading", "read" in handle_read_resource
    name,             \* handle_call_tool's name argument
    arguments,        \* handle_call_tool's arguments argument
    requests,         \* the outbound HTTP requests the current call has issued
    reply,            \* what the remote end answered to the pending request
    response,         \* what handle_call_tool returned (or that it raised)
    uri,              \* handle_read_resource's uri argument
    contents,         \* what handle_read_resource returned (or that it raised)
    tasks,            \* the handle_call_tool coroutines running concurrently:
                      \* the frame (position, locals, result) of each
    normKind,         \* normalizer under study: "memos" or "attachments"
    normHist          \* an identifier followed by its successive normalizations

vars == <<MEMOS_BASE_URL, MEMOS_API_KEY, pc, name, arguments, requests, reply,
          response, uri, contents, tasks, normKind, normHist>>

callVars == <<pc, name, arguments, requests, reply, response>>
resourceVars == <<uri, contents>>
configVars == <<MEMOS_BASE_URL, MEMOS_API_KEY>>
normVars == <<normKind, normHist>>
taskVars == <<tasks>>

(***************************************************************************)
(* Bounds of the model.                                                    *)
(***************************************************************************)
\* At most this many optional arguments accompany the required ones in a call.
MaxOptArgs == 2
\* An identifier handed to a normalizer has at most this many "/"-separated parts.
MaxSegs == 3
\* This many tool calls may be in progress at the same time.
NumTasks == 2

(***************************************************************************)
(* Python string operations used by the source.                            *)
(***************************************************************************)
\* str.startswith(prefix)
startswith(s, prefix) ==
    /\ Len(s) >= Len(prefix)
    /\ SubSeq(s, 1, Len(prefix)) = prefix

\* index of the last "/" of s at or before position i, 0 when there is none
RECURSIVE LastSlash(_, _)
LastSlash(s, i) ==
    IF i = 0 THEN 0
    ELSE IF SubSeq(s, i, i) = "/" THEN i
    ELSE LastSlash(s, i - 1)

\* s.split("/")[-1]: what follows the last "/" (all of s when it has none)
split_last(s) == SubSeq(s, LastSlash(s, Len(s)) + 1, Len(s))

\* s.rstrip("/")
RECURSIVE rstrip_slash(_)
rstrip_slash(s) ==
    IF Len(s) > 0 /\ SubSeq(s, Len(s), Len(s)) = "/"
    THEN rstrip_slash(SubSeq(s, 1, Len(s) - 1))
    ELSE s

\* every run of "/" in s replaced by a single "/"
RECURSIVE collapse_slashes(_)
collapse_slashes(s) ==
    IF Len(s) < 2 THEN s
    ELSE IF SubSeq(s, 1, 2) = "//" THEN collapse_slashes(SubSeq(s, 2, Len(s)))
    ELSE SubSeq(s, 1, 1) \o collapse_slashes(SubSeq(s, 2, Len(s)))

\* urljoin(MEMOS_BASE_URL.rstrip("/") + "/", path).  The base is a scheme and
\* host followed by "/", and the path is relative and free of ".", "..",
\* "?", "#" and ":" for every identifier of the model: urljoin then appends
\* the path to the base, dropping the empty segments inside the path.
api_url(path) == (rstrip_slash(MEMOS_BASE_URL) \o "/") \o collapse_slashes(path)

(***************************************************************************)
(* Dict helpers.                                                           *)
(***************************************************************************)
EmptyDict == <<>>

\* arguments.get(key, default)
Get(a, key, default) == IF key \in DOMAIN a THEN a[key] ELSE default

\* keyword argument param = arguments.get(key): None (absent) when missing
Pass(a, key, param) == IF key \in DOMAIN a THEN param :> a[key] ELSE EmptyDict

\* "if param is not None: payload[key] = value"
Put(kw, param, key, value) == IF param \in DOMAIN kw THEN key :> value ELSE EmptyDict

(***************************************************************************)
(* get_headers                                                             *)
(***************************************************************************)
\* get_headers adding the Authorization header whatever MEMOS_API_KEY is
get_headers_always_authorized ==
       ("Content-Type" :> "application/json")
    @@ ("Authorization" :> "Bearer " \o MEMOS_API_KEY)

get_headers ==
    IF MEMOS_API_KEY # ""
    THEN    ("Content-Type" :> "application/json")
         @@ ("Authorization" :> "Bearer " \o MEMOS_API_KEY)
    ELSE ("Content-Type" :> "application/json")

\* One outbound request as handed to httpx: json is <<>> when the call passes
\* no json= argument and <<payload>> when it does; timeout in seconds.
Request(method, url, params, json) ==
    [method |-> method, url |-> url, headers |-> get_headers,
     params |-> params, json |-> json, timeout |-> 30]

(***************************************************************************)
(* The request builders (server.py:42-535).  Each takes the keyword        *)
(* arguments of the Python call (None ones absent) and yields the request  *)
(* the function sends.                                                     *)
(***************************************************************************)
create_memo_payload(kw) ==
       ("content" :> kw["content"])
    @@ ("visibility" :> ("VISIBILITY_" \o kw["visibility"]))
    @@ ("state" :> ("STATE_" \o kw["state"]))
    @@ (IF kw["pinned"] THEN "pinned" :> kw["pinned"] ELSE EmptyDict)
    @@ Put(kw, "name", "name", kw["name"])
    @@ Put(kw, "create_time", "createTime", kw["create_time"])
    @@ Put(kw, "update_time", "updateTime", kw["update_time"])
    @@ Put(kw, "display_time", "displayTime", kw["display_time"])
    @@ Put(kw, "attachments", "attachments", kw["attachments"])
    @@ Put(kw, "relations", "relations", kw["relations"])
    @@ Put(kw, "property", "property", kw["property"])
    @@ Put(kw, "location", "location", kw["location"])

\* create_memo putting pinned in the payload whatever its value
create_memo_always_pinned(kw) ==
    Request("POST", api_url("api/v1/memos"), EmptyDict,
            <<create_memo_payload(kw) @@ ("pinned" :> kw["pinned"])>>)

create_memo(kw) ==
    Request("POST", api_url("api/v1/memos"), EmptyDict, <<create_memo_payload(kw)>>)

\* list_memos_params sending the state filter as the caller gave it
list_memos_params_bare_state(kw) ==
       Put(kw, "page_size", "pageSize", kw["page_size"])
    @@ Put(kw, "page_token", "pageToken", kw["page_token"])
    @@ Put(kw, "state", "state", kw["state"])
    @@ Put(kw, "order_by", "orderBy", kw["order_by"])
    @@ Put(kw, "filter", "filter", kw["filter"])
    @@ Put(kw, "show_deleted", "showDeleted",
           IF kw["show_deleted"] THEN "true" ELSE "false")

list_memos_params(kw) ==
       Put(kw, "page_size", "pageSize", kw["page_size"])
    @@ Put(kw, "page_token", "pageToken", kw["page_token"])
    @@ Put(kw, "state", "state", "STATE_" \o kw["state"])
    @@ Put(kw, "order_by", "orderBy", kw["order_by"])
    @@ Put(kw, "filter", "filter", kw["filter"])
    @@ Put(kw, "show_deleted", "showDeleted",
           IF kw["show_deleted"] THEN "true" ELSE "false")

list_memos(kw) ==
    Request("GET", api_url("api/v1/memos"), list_memos_params(kw), <<>>)

get_memo(memo_id) ==
    Request("GET", api_url("api/v1/memos/" \o memo_id), EmptyDict, <<>>)

\* update_memo_payload testing pinned for truth, as create_memo does
update_memo_payload_truthy_pinned(kw) ==
       Put(kw, "content", "content", kw["content"])
    @@ Put(kw, "visibility", "visibility", "VISIBILITY_" \o kw["visibility"])
    @@ Put(kw, "state", "state", "STATE_" \o kw["state"])
    @@ (IF "pinned" \in DOMAIN kw /\ kw["pinned"] THEN "pinned" :> TRUE ELSE EmptyDict)
    @@ Put(kw, "create_time", "createTime", kw["create_time"])
    @@ Put(kw, "update_time", "updateTime", kw["update_time"])
    @@ Put(kw, "display_time", "displayTime", kw["display_time"])
    @@ Put(kw, "attachments", "attachments", kw["attachments"])
    @@ Put(kw, "relations", "relations", kw["relations"])
    @@ Put(kw, "property", "property", kw["property"])
    @@ Put(kw, "location", "location", kw["location"])

update_memo_payload(kw) ==
       Put(kw, "content", "content", kw["content"])
    @@ Put(kw, "visibility", "visibility", "VISIBILITY_" \o kw["visibility"])
    @@ Put(kw, "state", "state", "STATE_" \o kw["state"])
    @@ Put(kw, "pinned", "pinned", kw["pinned"])
    @@ Put(kw, "create_time", "createTime", kw["create_time"])
    @@ Put(kw, "update_time", "updateTime", kw["update_time"])
    @@ Put(kw, "display_time", "displayTime", kw["display_time"])
    @@ Put(kw, "attachments", "attachments", kw["attachments"])
    @@ Put(kw, "relations", "relations", kw["relations"])
    @@ Put(kw, "property", "property", kw["property"])
    @@ Put(kw, "location", "location", kw["location"])

update_memo(kw) ==
    Request("PATCH", api_url("api/v1/memos/" \o kw["memo_id"]), EmptyDict,
            <<update_memo_payload(kw)>>)

delete_memo(memo_id) ==
    Request("DELETE", api_url("api/v1/memos/" \o memo_id), EmptyDict, <<>>)

list_memo_attachments_params(kw) ==
       Put(kw, "page_size", "pageSize", kw["page_size"])
    @@ Put(kw, "page_token", "pageToken", kw["page_token"])

list_memo_attachments(kw) ==
    Request("GET", api_url(("api/v1/memos/" \o kw["memo_id"]) \o "/attachments"),
            list_memo_attachments_params(kw), <<>>)

\* set_memo_attachments_payload dropping the server-assigned fields of each
\* attachment object
set_memo_attachments_payload_filtered(kw) ==
       ("name" :> ("memos/" \o kw["memo_id"]))
    @@ ("attachments" :>
            [i \in 1..Len(kw["attachments"]) |->
                [k \in DOMAIN kw["attachments"][i] \ {"size", "createTime"} |->
                    kw["attachments"][i][k]]])

set_memo_attachments_payload(kw) ==
       ("name" :> ("memos/" \o kw["memo_id"]))
    @@ ("attachments" :> kw["attachments"])

set_memo_attachments(kw) ==
    Request("PATCH", api_url(("api/v1/memos/" \o kw["memo_id"]) \o "/attachments"),
            EmptyDict, <<set_memo_attachments_payload(kw)>>)

\* create_attachment_payload sending memo as an empty string when it is None
create_attachment_payload_default_memo(kw) ==
       ("filename" :> kw["filename"])
    @@ ("type" :> kw["type"])
    @@ Put(kw, "content", "content", kw["content"])
    @@ Put(kw, "external_link", "externalLink", kw["external_link"])
    @@ ("memo" :> Get(kw, "memo", ""))

create_attachment_payload(kw) ==
       ("filename" :> kw["filename"])
    @@ ("type" :> kw["type"])
    @@ Put(kw, "content", "content", kw["content"])
    @@ Put(kw, "external_link", "externalLink", kw["external_link"])
    @@ Put(kw, "memo", "memo", kw["memo"])

create_attachment(kw) ==
    Request("POST",
            IF "attachment_id" \in DOMAIN kw
            THEN (api_url("api/v1/attachments") \o "?attachmentId=") \o kw["attachment_id"]
            ELSE api_url("api/v1/attachments"),
            EmptyDict, <<create_attachment_payload(kw)>>)

get_attachment(attachment_id) ==
    Request("GET", api_url("api/v1/attachments/" \o attachment_id), EmptyDict, <<>>)

\* list_attachments_params testing "if page_size:" instead of "is not None"
list_attachments_params_truthy(kw) ==
       (IF "page_size" \in DOMAIN kw /\ kw["page_size"] # 0
        THEN "pageSize" :> kw["page_size"] ELSE EmptyDict)
    @@ Put(kw, "page_token", "pageToken", kw["page_token"])
    @@ Put(kw, "filter", "filter", kw["filter"])
    @@ Put(kw, "order_by", "orderBy", kw["order_by"])

list_attachments_params(kw) ==
       Put(kw, "page_size", "pageSize", kw["page_size"])
    @@ Put(kw, "page_token", "pageToken", kw["page_token"])
    @@ Put(kw, "filter", "filter", kw["filter"])
    @@ Put(kw, "order_by", "orderBy", kw["order_by"])

list_attachments(kw) ==
    Request("GET", api_url("api/v1/attachments"), list_attachments_params(kw), <<>>)

\* update_attachment_payload testing "if content:" instead of "is not None"
update_attachment_payload_truthy(kw) ==
       Put(kw, "filename", "filename", kw["filename"])
    @@ Put(kw, "type", "type", kw["type"])
    @@ (IF "content" \in DOMAIN kw /\ kw["content"] # ""
        THEN "content" :> kw["content"] ELSE EmptyDict)
    @@ Put(kw, "external_link", "externalLink", kw["external_link"])
    @@ Put(kw, "memo", "memo", kw["memo"])

update_attachment_payload(kw) ==
       Put(kw, "filename", "filename", kw["filename"])
    @@ Put(kw, "type", "type", kw["type"])
    @@ Put(kw, "content", "content", kw["content"])
    @@ Put(kw, "external_link", "externalLink", kw["external_link"])
    @@ Put(kw, "memo", "memo", kw["memo"])

update_attachment(kw) ==
    Request("PATCH",
            (api_url("api/v1/attachments/" \o kw["attachment_id"]) \o "?updateMask=")
                \o kw["update_mask"],
            EmptyDict, <<update_attachment_payload(kw)>>)

delete_attachment(attachment_id) ==
    Request("DELETE", api_url("api/v1/attachments/" \o attachment_id), EmptyDict, <<>>)

(***************************************************************************)
(* Identifier normalizers.                                                 *)
(***************************************************************************)
\* format_memo_id removing the leading "memos/" and nothing else
format_memo_id_strip_once(memo_id) ==
    IF startswith(memo_id, "memos/")
    THEN SubSeq(memo_id, Len("memos/") + 1, Len(memo_id))
    ELSE memo_id

format_memo_id(memo_id) ==
    IF startswith(memo_id, "memos/") THEN split_last(memo_id) ELSE memo_id

\* the inline normalization of the attachment tools (server.py:1232, 1273, 1299)
format_attachment_id(attachment_id) ==
    IF startswith(attachment_id, "attachments/")
    THEN split_last(attachment_id)
    ELSE attachment_id


(***************************************************************************)
(* Responses of handle_call_tool and the Python exceptions it handles.     *)
(***************************************************************************)
TextContent(text) == [type |-> "text", text |-> text]

\* a normal return of the handler with the given list of content blocks
Returned(content) == [raised |-> FALSE, content |-> content]
\* an exception leaving the handler
Raised == [raised |-> TRUE, content |-> <<>>]
NoResponse == Returned(<<>>)

Exception(type, status_code, text) ==
    [type |-> type, status_code |-> status_code, text |-> text]

\* Exception classes of the model that derive from Python's Exception.
ExceptionSubclasses == {"HTTPStatusError", "TransportError", "JSONDecodeError"}

\* except_handlers without the closing "except Exception" clause
except_handlers_status_only(e) ==
    IF e.type = "HTTPStatusError"
    THEN Returned(<<TextContent((("HTTP Error " \o ToString(e.status_code)) \o ": ")
                                \o e.text)>>)
    ELSE Raised

\* except_handlers reporting an HTTP error without its status code
except_handlers_without_status(e) ==
    IF e.type = "HTTPStatusError"
    THEN Returned(<<TextContent("HTTP Error: " \o e.text)>>)
    ELSE IF e.type \in ExceptionSubclasses
    THEN Returned(<<TextContent("Error: " \o e.text)>>)
    ELSE Raised

\* The two except clauses closing handle_call_tool.
except_handlers(e) ==
    IF e.type = "HTTPStatusError"
    THEN Returned(<<TextContent((("HTTP Error " \o ToString(e.status_code)) \o ": ")
                                \o e.text)>>)
    ELSE IF e.type \in ExceptionSubclasses
    THEN Returned(<<TextContent("Error: " \o e.text)>>)
    ELSE Raised

(***************************************************************************)
(* The synchronous part of each branch of handle_call_tool: from the       *)
(* argument dict either an early return or the request the branch awaits.  *)
(***************************************************************************)
Return(text) == [kind |-> "return", content |-> <<TextContent(text)>>, request |-> <<>>]
Await(request) == [kind |-> "await", content |-> <<>>, request |-> <<request>>]

branch_create_memo(a) ==
    LET content == Get(a, "content", "")
        kw ==    ("content" :> content)
              @@ ("visibility" :> Get(a, "visibility", "PRIVATE"))
              @@ ("state" :> Get(a, "state", "NORMAL"))
              @@ ("pinned" :> Get(a, "pinned", FALSE))
              @@ Pass(a, "name", "name")
              @@ Pass(a, "createTime", "create_time")
              @@ Pass(a, "updateTime", "update_time")
              @@ Pass(a, "displayTime", "display_time")
              @@ Pass(a, "attachments", "attachments")
              @@ Pass(a, "relations", "relations")
              @@ Pass(a, "property", "property")
              @@ Pass(a, "location", "location")
    IN  IF content = "" THEN Return("Error: content is required")
        ELSE Await(create_memo(kw))

branch_list_memos(a) ==
    LET kw ==    Pass(a, "pageSize", "page_size")
              @@ Pass(a, "pageToken", "page_token")
              @@ Pass(a, "state", "state")
              @@ Pass(a, "orderBy", "order_by")
              @@ Pass(a, "filter", "filter")
              @@ Pass(a, "showDeleted", "show_deleted")
    IN  Await(list_memos(kw))

\* branch_get_memo without its "if not memo_id" check
branch_get_memo_unchecked(a) ==
    Await(get_memo(format_memo_id(Get(a, "memoId", ""))))

branch_get_memo(a) ==
    LET memo_id == Get(a, "memoId", "")
    IN  IF memo_id = "" THEN Return("Error: memo_id is required")
        ELSE Await(get_memo(format_memo_id(memo_id)))

branch_update_memo(a) ==
    LET memo_id == Get(a, "memoId", "")
        kw ==    ("memo_id" :> format_memo_id(memo_id))
              @@ Pass(a, "content", "content")
              @@ Pass(a, "visibility", "visibility")
              @@ Pass(a, "state", "state")
              @@ Pass(a, "pinned", "pinned")
              @@ Pass(a, "createTime", "create_time")
              @@ Pass(a, "updateTime", "update_time")
              @@ Pass(a, "displayTime", "display_time")
              @@ Pass(a, "attachments", "attachments")
              @@ Pass(a, "relations", "relations")
              @@ Pass(a, "property", "property")
              @@ Pass(a, "location", "location")
    IN  IF memo_id = "" THEN Return("Error: memo_id is required")
        ELSE Await(update_memo(kw))

branch_delete_memo(a) ==
    LET memo_id == Get(a, "memoId", "")
    IN  IF memo_id = "" THEN Return("Error: memo_id is required")
        ELSE Await(delete_memo(format_memo_id(memo_id)))

branch_list_memo_attachments(a) ==
    LET memo_id == Get(a, "memo_id", "")
        kw ==    ("memo_id" :> format_memo_id(memo_id))
              @@ Pass(a, "pageSize", "page_size")
              @@ Pass(a, "pageToken", "page_token")
    IN  IF memo_id = "" THEN Return("Error: memo_id is required")
        ELSE Await(list_memo_attachments(kw))

branch_set_memo_attachments(a) ==
    LET memo_id == Get(a, "memoId", "")
    IN  IF memo_id = "" THEN Return("Error: memo_id is required")
        ELSE IF "attachments" \notin DOMAIN a
        THEN Return("Error: attachments is required")
        ELSE Await(set_memo_attachments(
                       ("memo_id" :> format_memo_id(memo_id))
                    @@ ("attachments" :> a["attachments"])))

branch_create_attachment(a) ==
    LET filename == Get(a, "filename", "")
        type == Get(a, "type", "")
        kw ==    ("filename" :> filename)
              @@ ("type" :> type)
              @@ Pass(a, "attachmentId", "attachment_id")
              @@ Pass(a, "content", "content")
              @@ Pass(a, "externalLink", "external_link")
              @@ Pass(a, "memo", "memo")
    IN  IF filename = "" THEN Return("Error: filename is required")
        ELSE IF type = "" THEN Return("Error: type is required")
        ELSE Await(create_attachment(kw))

branch_get_attachment(a) ==
    LET attachment_id == Get(a, "attachmentId", "")
    IN  IF attachment_id = "" THEN Return("Error: attachment_id is required")
        ELSE Await(get_attachment(format_attachment_id(attachment_id)))

branch_list_attachments(a) ==
    LET kw ==    Pass(a, "pageSize", "page_size")
              @@ Pass(a, "pageToken", "page_token")
              @@ Pass(a, "filter", "filter")
              @@ Pass(a, "orderBy", "order_by")
    IN  Await(list_attachments(kw))

branch_update_attachment(a) ==
    LET attachment_id == Get(a, "attachmentId", "")
        update_mask == Get(a, "updateMask", "")
        kw ==    ("attachment_id" :> format_attachment_id(attachment_id))
              @@ ("update_mask" :> update_mask)
              @@ Pass(a, "filename", "filename")
              @@ Pass(a, "type", "type")
              @@ Pass(a, "content", "content")
              @@ Pass(a, "externalLink", "external_link")
              @@ Pass(a, "memo", "memo")
    IN  IF attachment_id = "" THEN Return("Error: attachment_id is required")
        ELSE IF update_mask = "" THEN Return("Error: update_mask is required")
        ELSE Await(update_attachment(kw))

branch_delete_attachment(a) ==
    LET attachment_id == Get(a, "attachmentId", "")
    IN  IF attachment_id = "" THEN Return("Error: attachment_id is required")
        ELSE Await(delete_attachment(format_attachment_id(attachment_id)))

\* the closing else branch without the offending name
branch_unknown_anonymous(n) == Return("Unknown tool")

branch_unknown(n) == Return("Unknown tool: " \o n)


(***************************************************************************)
(* What the remote end can answer, and the part of each branch that runs   *)
(* once the awaited request is over.                                       *)
(***************************************************************************)
\* a success, a redirect, a client error, a server error
StatusCodes == {200, 302, 404, 500}
JsonBody == "{\"name\": \"memos/7\"}"
\* a JSON document, a plain text, an empty body
Bodies == {JsonBody, "Not Found", ""}
\* str() of the httpx exception: a refused connection, a timeout (empty)
TransportMessages == {"All connection attempts failed", ""}

HttpResponse(status_code, text) ==
    [kind |-> "response", status_code |-> status_code, text |-> text]
TransportFailure(text) ==
    [kind |-> "failure", status_code |-> 0, text |-> text]

Replies ==
    {HttpResponse(c, b) : c \in StatusCodes, b \in Bodies}
        \cup {TransportFailure(m) : m \in TransportMessages}

\* "response = await client.<method>(...)" followed by
\* "response.raise_for_status()": the exception raised, if any
raise_for_status(rep) ==
    IF rep.kind = "failure"
    THEN <<Exception("TransportError", 0, rep.text)>>
    ELSE IF rep.status_code \notin 200..299
    THEN <<Exception("HTTPStatusError", rep.status_code, rep.text)>>
    ELSE <<>>

\* response.json(): the parsed document, <<>> when the body is not JSON
response_json(rep) ==
    IF rep.text = JsonBody THEN <<[name |-> "memos/7"]>> ELSE <<>>

\* json.dumps(result, indent=2, ensure_ascii=False)
json_dumps(result) ==
    IF result = [name |-> "memos/7"]
    THEN "{\n  \"name\": \"memos/7\"\n}"
    ELSE "null"

\* Tools whose branch renders the JSON document the builder returned.
JsonTools ==
    {"create_memo", "list_memos", "get_memo", "update_memo",
     "list_memo_attachments", "create_attachment", "get_attachment",
     "list_attachments", "update_attachment"}

\* confirmation quoting the normalized memo identifier after a deletion
confirmation_normalized(n, a) ==
    IF n = "delete_memo"
    THEN "Successfully deleted memo: " \o format_memo_id(Get(a, "memoId", ""))
    ELSE IF n = "set_memo_attachments"
    THEN ((("Successfully set " \o ToString(Len(a["attachments"])))
            \o " attachment(s) for memo: ") \o Get(a, "memoId", ""))
    ELSE "Successfully deleted attachment: "
            \o format_attachment_id(Get(a, "attachmentId", ""))

\* The confirmation text of the three branches whose builder returns None.
confirmation(n, a) ==
    IF n = "delete_memo"
    THEN "Successfully deleted memo: " \o Get(a, "memoId", "")
    ELSE IF n = "set_memo_attachments"
    THEN ((("Successfully set " \o ToString(Len(a["attachments"])))
            \o " attachment(s) for memo: ") \o Get(a, "memoId", ""))
    ELSE "Successfully deleted attachment: "
            \o format_attachment_id(Get(a, "attachmentId", ""))

\* The handler from the point where its request is answered to its return.
resume(n, a, rep) ==
    LET raised == raise_for_status(rep)
    IN  IF raised # <<>> THEN except_handlers(raised[1])
        ELSE IF n \in JsonTools
        THEN IF response_json(rep) = <<>>
             THEN except_handlers(Exception("JSONDecodeError", 0,
                      "Expecting value: line 1 column 1 (char 0)"))
             ELSE Returned(<<TextContent(json_dumps(response_json(rep)[1]))>>)
        ELSE Returned(<<TextContent(confirmation(n, a))>>)

(***************************************************************************)
(* handle_read_resource (server.py:557-573): what it returns for each of   *)
(* its three branches.                                                     *)
(***************************************************************************)
\* a normal return of handle_read_resource with the given string
ReturnedText(text) == [raised |-> FALSE, text |-> text]
\* the ValueError leaving handle_read_resource, text being its message
RaisedValueError(text) == [raised |-> TRUE, text |-> text]
NoContents == ReturnedText("")

\* The body of a JSON string literal: json.dumps escapes the double quote and
\* the backslash (control characters do not occur in the model's strings).
RECURSIVE json_escape(_)
json_escape(s) ==
    IF s = "" THEN ""
    ELSE LET c == SubSeq(s, 1, 1)
         IN  (IF c = "\"" THEN "\\\"" ELSE IF c = "\\" THEN "\\\\" ELSE c)
                \o json_escape(SubSeq(s, 2, Len(s)))

\* json.dumps of a str
json_string(s) == ("\"" \o json_escape(s)) \o "\""

\* str(e): for an HTTPStatusError the beginning of the message httpx builds
\* from the status, for the other exceptions the message they carry
str(e) ==
    IF e.type = "HTTPStatusError"
    THEN ((IF e.status_code \in 400..499 THEN "Client error '"
           ELSE IF e.status_code \in 500..599 THEN "Server error '"
           ELSE "Redirect response '") \o ToString(e.status_code)) \o "'"
    ELSE e.text

\* json.dumps({"error": str(e)})
json_dumps_error(e) == ("{\"error\": " \o json_string(str(e))) \o "}"

\* the memos://memos branch without its try/except: the exception leaves
except_Exception_unhandled(e) == RaisedValueError(str(e))

\* "except Exception as e" of the memos://memos branch
except_Exception(e) ==
    IF e.type \in ExceptionSubclasses
    THEN ReturnedText(json_dumps_error(e))
    ELSE RaisedValueError(e.text)

\* the request "await list_memos(page_size=100)" sends
read_memos_request == list_memos("page_size" :> 100)

\* The memos://memos branch from the point where its request is answered.
read_memos_resume(rep) ==
    LET raised == raise_for_status(rep)
    IN  IF raised # <<>> THEN except_Exception(raised[1])
        ELSE IF response_json(rep) = <<>>
        THEN except_Exception(Exception("JSONDecodeError", 0,
                 "Expecting value: line 1 column 1 (char 0)"))
        ELSE ReturnedText(json_dumps(response_json(rep)[1]))

\* read_config reporting the key itself next to the base URL
read_config_with_key ==
    ((("{\n  \"base_url\": " \o json_string(MEMOS_BASE_URL))
        \o ",\n  \"api_key\": ") \o json_string(MEMOS_API_KEY)) \o "\n}"

\* The memos://config branch: json.dumps(config, indent=2).
read_config ==
    ((("{\n  \"base_url\": " \o json_string(MEMOS_BASE_URL))
        \o ",\n  \"has_api_key\": ")
        \o (IF MEMOS_API_KEY # "" THEN "true" ELSE "false")) \o "\n}"

\* read_unknown returning its message instead of raising it
read_unknown_returning(u) == ReturnedText("Unknown resource: " \o u)

\* The closing else branch.
read_unknown(u) == RaisedValueError("Unknown resource: " \o u)

\* The URIs handle_list_resources advertises, and two it does not.
ResourceUris == {"memos://memos", "memos://config"}
UnknownUris == {"memos://other", "memos://memos/"}

(***************************************************************************)
(* The argument dicts a caller may send.                                   *)
(***************************************************************************)
Tools ==
    {"create_memo", "list_memos", "get_memo", "update_memo", "delete_memo",
     "list_memo_attachments", "set_memo_attachments", "create_attachment",
     "get_attachment", "list_attachments", "update_attachment",
     "delete_attachment"}

\* a name no branch matches: a tool that does not exist, a known name in other case
UnknownTools == {"search_memos", "Get_Memo"}

MemoIds == {"", "7", "memos/7", "memos/"}
AttachmentIds == {"", "9", "attachments/9", "attachments/"}
Attachment == [filename |-> "a.png", type |-> "image/png"]
\* an attachment object as the remote end lists it, handed back by the caller
StoredAttachment ==
    [filename |-> "a.png", type |-> "image/png", size |-> 10,
     createTime |-> "2024-01-01T00:00:00Z"]

\* The "required" list of each tool's inputSchema (handle_list_tools).
inputSchema_required(n) ==
    CASE n = "create_memo" -> {"content"}
      [] n \in {"get_memo", "update_memo", "delete_memo"} -> {"memo_id"}
      [] n = "list_memo_attachments" -> {"memoId"}
      [] n = "set_memo_attachments" -> {"memoId", "attachments"}
      [] n = "create_attachment" -> {"filename", "type"}
      [] n \in {"get_attachment", "delete_attachment"} -> {"attachmentId"}
      [] n = "update_attachment" -> {"attachmentId", "updateMask"}
      [] OTHER -> {}

\* Arguments a call may carry in any combination: the ones the tool's
\* schema lists as required and the ones its branch checks.
RequiredKeys(n) ==
    CASE n = "create_memo" -> {"content"}
      [] n \in {"get_memo", "update_memo", "delete_memo", "list_memo_attachments"}
            -> {"memoId", "memo_id"}
      [] n = "set_memo_attachments" -> {"memoId", "attachments"}
      [] n = "create_attachment" -> {"filename", "type"}
      [] n \in {"get_attachment", "delete_attachment"} -> {"attachmentId"}
      [] n = "update_attachment" -> {"attachmentId", "updateMask"}
      [] OTHER -> {}

\* The other properties of the tool's schema; for the attachment tools also a
\* server-assigned field, which the schema does not declare and does not forbid.
OptionalKeys(n) ==
    CASE n = "create_memo" ->
            {"visibility", "state", "pinned", "name", "createTime", "updateTime",
             "displayTime", "attachments", "relations", "property", "location"}
      [] n = "list_memos" ->
            {"pageSize", "pageToken", "state", "orderBy", "filter", "showDeleted"}
      [] n = "update_memo" ->
            {"content", "visibility", "state", "pinned", "createTime", "updateTime",
             "displayTime", "attachments", "relations", "property", "location"}
      [] n = "list_memo_attachments" -> {"pageSize", "pageToken"}
      [] n = "create_attachment" ->
            {"attachmentId", "content", "externalLink", "memo", "size"}
      [] n = "list_attachments" -> {"pageSize", "pageToken", "filter", "orderBy"}
      [] n = "update_attachment" ->
            {"filename", "type", "content", "externalLink", "memo", "createTime"}
      [] n \in UnknownTools -> {"memoId"}
      [] OTHER -> {}

ArgValues(n, key) ==
    CASE key = "memoId" ->
            IF n = "list_memo_attachments" \/ n \in UnknownTools THEN {"7"} ELSE MemoIds
      [] key = "memo_id" ->
            IF n = "list_memo_attachments" THEN MemoIds ELSE {"7"}
      [] key = "attachmentId" ->
            IF n = "create_attachment" THEN {"9"} ELSE AttachmentIds
      [] key = "content" -> {"", "hello"}
      [] key = "visibility" -> {"PUBLIC", "PROTECTED"}
      [] key = "state" -> {"ARCHIVED"}
      [] key \in {"pinned", "showDeleted"} -> {TRUE, FALSE}
      [] key \in {"name", "memo"} -> {"memos/7"}
      [] key \in {"createTime", "updateTime", "displayTime"} -> {"2024-01-01T00:00:00Z"}
      [] key = "attachments" -> {<<>>, <<Attachment>>, <<StoredAttachment>>}
      [] key = "size" -> {10}
      [] key = "relations" -> {<<>>}
      [] key = "property" -> {[hasLink |-> TRUE]}
      [] key = "location" -> {[placeholder |-> "home", latitude |-> 1, longitude |-> 2]}
      [] key = "pageSize" -> {0, 10}
      [] key = "pageToken" -> {"tok"}
      [] key = "orderBy" -> {"create_time asc"}
      [] key = "filter" -> {"pinned"}
      [] key = "filename" -> IF n = "create_attachment" THEN {"", "a.png"} ELSE {"b.png"}
      [] key = "type" -> IF n = "create_attachment" THEN {"", "image/png"} ELSE {"image/gif"}
      [] key = "externalLink" -> {"http://files.local/a.png"}
      [] key = "updateMask" -> {"", "filename"}

\* The dicts over keys that give at most most of them a value.
RECURSIVE Dicts(_, _, _)
Dicts(n, keys, most) ==
    IF keys = {} \/ most = 0 THEN {EmptyDict}
    ELSE LET k == CHOOSE x \in keys : TRUE
         IN  Dicts(n, keys \ {k}, most)
                \cup {d @@ (k :> v) : d \in Dicts(n, keys \ {k}, most - 1),
                                      v \in ArgValues(n, k)}

ArgumentDicts(n) ==
    {r @@ o : r \in Dicts(n, RequiredKeys(n), Cardinality(RequiredKeys(n))),
              o \in Dicts(n, OptionalKeys(n), MaxOptArgs)}

\* The coroutines the event loop may run side by side, and the frame of one
\* that has not been entered.
Tasks == 1..NumTasks
IdleTask ==
    [pc |-> "idle", name |-> "", arguments |-> EmptyDict, requests |-> <<>>,
     reply |-> <<>>, response |-> NoResponse]

(***************************************************************************)
(* The state machine: one tool call or one resource read at a time.         *)
(***************************************************************************)
BaseUrls == {"http://memos.local", "http://memos.local/"}
\* no key, and two different keys
ApiKeys == {"", "secret", "hunter2"}

Init ==
    /\ MEMOS_BASE_URL \in BaseUrls
    /\ MEMOS_API_KEY \in ApiKeys
    /\ pc = "idle"
    /\ name = ""
    /\ arguments = EmptyDict
    /\ requests = <<>>
    /\ reply = <<>>
    /\ response = NoResponse
    /\ uri = ""
    /\ contents = NoContents
    /\ tasks = [t \in Tasks |-> IdleTask]
    /\ normKind = "memos"
    /\ normHist = <<>>

\* handle_call_tool entered with (n, a); out is what the branch for n does
\* before its first suspension point.
Enter(n, a, out) ==
    /\ pc = "idle"
    /\ name' = n
    /\ arguments' = a
    /\ requests' = requests \o out.request
    /\ reply' = <<>>
    /\ response' = Returned(out.content)
    /\ pc' = IF out.kind = "await" THEN "awaiting" ELSE "done"
    /\ UNCHANGED <<resourceVars, configVars, normVars, taskVars>>

call_create_memo ==
    /\ pc = "idle"
    /\ \E a \in ArgumentDicts("create_memo") : Enter("create_memo", a, branch_create_memo(a))
call_list_memos ==
    /\ pc = "idle"
    /\ \E a \in ArgumentDicts("list_memos") : Enter("list_memos", a, branch_list_memos(a))
call_get_memo ==
    /\ pc = "idle"
    /\ \E a \in ArgumentDicts("get_memo") : Enter("get_memo", a, branch_get_memo(a))
call_update_memo ==
    /\ pc = "idle"
    /\ \E a \in ArgumentDicts("update_memo") : Enter("update_memo", a, branch_update_memo(a))
call_delete_memo ==
    /\ pc = "idle"
    /\ \E a \in ArgumentDicts("delete_memo") : Enter("delete_memo", a, branch_delete_memo(a))
call_list_memo_attachments ==
    /\ pc = "idle"
    /\ \E a \in ArgumentDicts("list_memo_attachments") :
        Enter("list_memo_attachments", a, branch_list_memo_attachments(a))
call_set_memo_attachments ==
    /\ pc = "idle"
    /\ \E a \in ArgumentDicts("set_memo_attachments") :
        Enter("set_memo_attachments", a, branch_set_memo_attachments(a))
call_create_attachment ==
    /\ pc = "idle"
    /\ \E a \in ArgumentDicts("create_attachment") :
        Enter("create_attachment", a, branch_create_attachment(a))
call_get_attachment ==
    /\ pc = "idle"
    /\ \E a \in ArgumentDicts("get_attachment") :
        Enter("get_attachment", a, branch_get_attachment(a))
call_list_attachments ==
    /\ pc = "idle"
    /\ \E a \in ArgumentDicts("list_attachments") :
        Enter("list_attachments", a, branch_list_attachments(a))
call_update_attachment ==
    /\ pc = "idle"
    /\ \E a \in ArgumentDicts("update_attachment") :
        Enter("update_attachment", a, branch_update_attachment(a))
call_delete_attachment ==
    /\ pc = "idle"
    /\ \E a \in ArgumentDicts("delete_attachment") :
        Enter("delete_attachment", a, branch_delete_attachment(a))
call_unknown ==
    /\ pc = "idle"
    /\ \E n \in UnknownTools : \E a \in ArgumentDicts(n) : Enter(n, a, branch_unknown(n))

\* HttpReply sending the request a second time when the first attempt fails
HttpReply_retrying ==
    /\ pc = "awaiting"
    /\ \E rep \in Replies :
        IF rep.kind = "failure" /\ Len(requests) = 1
        THEN /\ requests' = Append(requests, requests[1])
             /\ pc' = "awaiting"
             /\ UNCHANGED <<reply, response>>
        ELSE /\ reply' = <<rep>>
             /\ response' = resume(name, arguments, rep)
             /\ pc' = "done"
             /\ UNCHANGED requests
    /\ UNCHANGED <<name, arguments, resourceVars, configVars, normVars, taskVars>>

\* HttpReply with a request that has no timeout: when the remote end stays
\* silent the coroutine is never resumed
HttpReply_without_timeout ==
    /\ pc = "awaiting"
    /\ \E rep \in Replies :
        IF rep = TransportFailure("")
        THEN /\ pc' = "suspended for ever"
             /\ UNCHANGED <<reply, response>>
        ELSE /\ reply' = <<rep>>
             /\ response' = resume(name, arguments, rep)
             /\ pc' = "done"
    /\ UNCHANGED <<name, arguments, requests, resourceVars, configVars, normVars, taskVars>>

\* The pending request is answered (or fails, or times out) and the handler
\* runs to its return.
HttpReply ==
    /\ pc = "awaiting"
    /\ \E rep \in Replies :
        /\ reply' = <<rep>>
        /\ response' = resume(name, arguments, rep)
    /\ pc' = "done"
    /\ UNCHANGED <<name, arguments, requests, resourceVars, configVars, normVars, taskVars>>

\* The transport takes the result; the server is ready for the next call.
Finish ==
    /\ pc = "done"
    /\ pc' = "idle"
    /\ name' = ""
    /\ arguments' = EmptyDict
    /\ requests' = <<>>
    /\ reply' = <<>>
    /\ response' = NoResponse
    /\ UNCHANGED <<resourceVars, configVars, normVars, taskVars>>

\* handle_read_resource entered with uri u: the branch for u runs to its
\* return (or raise), or to the point where it awaits its request.
EnterRead(u, request, result) ==
    /\ pc = "idle"
    /\ uri' = u
    /\ requests' = requests \o request
    /\ reply' = <<>>
    /\ contents' = result
    /\ pc' = IF request # <<>> THEN "reading" ELSE "read"
    /\ UNCHANGED <<name, arguments, response, configVars, normVars, taskVars>>

read_resource_memos ==
    /\ pc = "idle"
    /\ EnterRead("memos://memos", <<read_memos_request>>, NoContents)

read_resource_config ==
    /\ pc = "idle"
    /\ EnterRead("memos://config", <<>>, ReturnedText(read_config))

read_resource_unknown ==
    /\ pc = "idle"
    /\ \E u \in UnknownUris : EnterRead(u, <<>>, read_unknown(u))

\* The request of the memos://memos branch is answered (or fails) and
\* handle_read_resource runs to its return.
ResourceReply ==
    /\ pc = "reading"
    /\ \E rep \in Replies :
        /\ reply' = <<rep>>
        /\ contents' = read_memos_resume(rep)
    /\ pc' = "read"
    /\ UNCHANGED <<uri, requests, name, arguments, response, configVars, normVars, taskVars>>

\* The transport takes what handle_read_resource produced.
FinishRead ==
    /\ pc = "read"
    /\ pc' = "idle"
    /\ uri' = ""
    /\ requests' = <<>>
    /\ reply' = <<>>
    /\ contents' = NoContents
    /\ UNCHANGED <<name, arguments, response, configVars, normVars, taskVars>>

Next ==
    \/ call_create_memo
    \/ call_list_memos
    \/ call_get_memo
    \/ call_update_memo
    \/ call_delete_memo
    \/ call_list_memo_attachments
    \/ call_set_memo_attachments
    \/ call_create_attachment
    \/ call_get_attachment
    \/ call_list_attachments
    \/ call_update_attachment
    \/ call_delete_attachment
    \/ call_unknown
    \/ HttpReply
    \/ Finish
    \/ read_resource_memos
    \/ read_resource_config
    \/ read_resource_unknown
    \/ ResourceReply
    \/ FinishRead

Spec == Init /\ [][Next]_vars

\* Every client call is made with timeout=30.0, so the request a call awaits
\* is over within bounded time: it is answered, it fails, or it times out.
LiveSpec == Init /\ [][Next]_vars /\ WF_vars(HttpReply)


(***************************************************************************)
(* The normalizers on their own: an identifier is normalized, and the      *)
(* result normalized again.                                                *)
(***************************************************************************)
Segments == {"", "7", "memos", "attachments"}

\* the identifiers of at most n parts joined by "/"
RECURSIVE Identifiers(_)
Identifiers(n) ==
    IF n <= 1 THEN Segments
    ELSE Identifiers(n - 1)
            \cup {(p \o "/") \o s : p \in Identifiers(n - 1), s \in Segments}

\* the normalizer the memo tools use, or the one the attachment tools use
normalize_id(kind, id) ==
    IF kind = "memos" THEN format_memo_id(id) ELSE format_attachment_id(id)

NormInit ==
    /\ MEMOS_BASE_URL = "http://memos.local"
    /\ MEMOS_API_KEY = ""
    /\ pc = "idle"
    /\ name = ""
    /\ arguments = EmptyDict
    /\ requests = <<>>
    /\ reply = <<>>
    /\ response = NoResponse
    /\ uri = ""
    /\ contents = NoContents
    /\ tasks = [t \in Tasks |-> IdleTask]
    /\ normKind \in {"memos", "attachments"}
    /\ normHist \in {<<id>> : id \in Identifiers(MaxSegs)}

normalize ==
    /\ Len(normHist) \in {1, 2}
    /\ normHist' = Append(normHist, normalize_id(normKind, normHist[Len(normHist)]))
    /\ UNCHANGED <<normKind, configVars, callVars, resourceVars, taskVars>>

NormNext == normalize

NormSpec == NormInit /\ [][NormNext]_vars


(***************************************************************************)
(* Tool calls in progress side by side: the event loop runs one coroutine  *)
(* of handle_call_tool until it awaits its request or returns, then any    *)
(* other.  A coroutine's name, arguments and everything its branch binds   *)
(* are locals of its own frame; MEMOS_BASE_URL and MEMOS_API_KEY are the   *)
(* module's globals.                                                       *)
(***************************************************************************)
\* handle_call_tool's if/elif chain on name
branch(n, a) ==
    CASE n = "create_memo" -> branch_create_memo(a)
      [] n = "list_memos" -> branch_list_memos(a)
      [] n = "get_memo" -> branch_get_memo(a)
      [] n = "update_memo" -> branch_update_memo(a)
      [] n = "delete_memo" -> branch_delete_memo(a)
      [] n = "list_memo_attachments" -> branch_list_memo_attachments(a)
      [] n = "set_memo_attachments" -> branch_set_memo_attachments(a)
      [] n = "create_attachment" -> branch_create_attachment(a)
      [] n = "get_attachment" -> branch_get_attachment(a)
      [] n = "list_attachments" -> branch_list_attachments(a)
      [] n = "update_attachment" -> branch_update_attachment(a)
      [] n = "delete_attachment" -> branch_delete_attachment(a)
      [] OTHER -> branch_unknown(n)

\* The calls made side by side: two deletions that differ in the spelling of
\* the identifier, a reading, a creation, a call that fails validation and
\* an unknown tool.
ConcurrentCalls ==
    {<<"delete_memo", [memoId |-> "memos/7"]>>,
     <<"delete_memo", [memoId |-> "7"]>>,
     <<"get_memo", [memoId |-> "memos/7"]>>,
     <<"create_memo", [content |-> "hello", pinned |-> TRUE]>>,
     <<"update_attachment", [attachmentId |-> "9", updateMask |-> ""]>>,
     <<"search_memos", EmptyDict>>}

\* a success, a success without a body, a refusal, a timeout
ConcurrentReplies ==
    {HttpResponse(200, JsonBody), HttpResponse(200, ""),
     HttpResponse(404, "Not Found"), TransportFailure("")}

ConcInit ==
    /\ MEMOS_BASE_URL \in BaseUrls
    /\ MEMOS_API_KEY \in ApiKeys
    /\ pc = "idle"
    /\ name = ""
    /\ arguments = EmptyDict
    /\ requests = <<>>
    /\ reply = <<>>
    /\ response = NoResponse
    /\ uri = ""
    /\ contents = NoContents
    /\ tasks = [t \in Tasks |-> IdleTask]
    /\ normKind = "memos"
    /\ normHist = <<>>

\* Coroutine t is entered with (n, a) and runs to its first suspension point
\* or to its return.
task_call(t, n, a) ==
    LET out == branch(n, a)
    IN  /\ tasks[t].pc = "idle"
        /\ tasks' = [tasks EXCEPT ![t] =
                [pc |-> IF out.kind = "await" THEN "awaiting" ELSE "done",
                 name |-> n, arguments |-> a, requests |-> out.request,
                 reply |-> <<>>, response |-> Returned(out.content)]]
        /\ UNCHANGED <<callVars, resourceVars, configVars, normVars>>

\* task_reply reading the arguments from a variable all coroutines share,
\* which holds those of the highest-numbered call in progress
task_reply_shared_arguments(t, rep) ==
    LET last == CHOOSE u \in Tasks :
                    /\ tasks[u].pc # "idle"
                    /\ \A v \in Tasks : tasks[v].pc # "idle" => v <= u
    IN  /\ tasks[t].pc = "awaiting"
        /\ tasks' = [tasks EXCEPT ![t] =
                [@ EXCEPT !.pc = "done", !.reply = <<rep>>,
                          !.response = resume(tasks[t].name, tasks[last].arguments, rep)]]
        /\ UNCHANGED <<callVars, resourceVars, configVars, normVars>>

\* The request coroutine t awaits is over: t runs to its return.
task_reply(t, rep) ==
    /\ tasks[t].pc = "awaiting"
    /\ tasks' = [tasks EXCEPT ![t] =
            [@ EXCEPT !.pc = "done", !.reply = <<rep>>,
                      !.response = resume(tasks[t].name, tasks[t].arguments, rep)]]
    /\ UNCHANGED <<callVars, resourceVars, configVars, normVars>>

\* The transport takes the result of coroutine t, whose frame is dropped.
task_finish(t) ==
    /\ tasks[t].pc = "done"
    /\ tasks' = [tasks EXCEPT ![t] = IdleTask]
    /\ UNCHANGED <<callVars, resourceVars, configVars, normVars>>

TaskCall == \E t \in Tasks : \E c \in ConcurrentCalls : task_call(t, c[1], c[2])
TaskReply == \E t \in Tasks : \E rep \in ConcurrentReplies : task_reply(t, rep)
TaskFinish == \E t \in Tasks : task_finish(t)

ConcNext ==
    \/ TaskCall
    \/ TaskReply
    \/ TaskFinish

ConcSpec == ConcInit /\ [][ConcNext]_vars


(***************************************************************************)
(* Properties.                                                             *)
(***************************************************************************)
\* a call is in progress or has just returned
InCall == pc \in {"awaiting", "done"}
\* the current call has issued a request
Issued == requests # <<>>
\* the handler returned exactly one text block starting with "Error: "
ErrorReturned ==
    /\ pc = "done"
    /\ ~response.raised
    /\ Len(response.content) = 1
    /\ response.content[1].type = "text"
    /\ startswith(response.content[1].text, "Error: ")

\* The arguments each branch insists on, under the keys the branch reads.
CheckedKeys(n) ==
    CASE n = "create_memo" -> {"content"}
      [] n \in {"get_memo", "update_memo", "delete_memo"} -> {"memoId"}
      [] n = "list_memo_attachments" -> {"memo_id"}
      [] n = "set_memo_attachments" -> {"memoId", "attachments"}
      [] n = "create_attachment" -> {"filename", "type"}
      [] n \in {"get_attachment", "delete_attachment"} -> {"attachmentId"}
      [] n = "update_attachment" -> {"attachmentId", "updateMask"}
      [] OTHER -> {}

ToolsWithRequired == {n \in Tools : CheckedKeys(n) # {}}

\* key is missing from a, or present with an empty value
MissingOrEmpty(a, key) ==
    \/ key \notin DOMAIN a
    \/ IF key = "attachments" THEN a[key] = <<>> ELSE a[key] = ""

\* key is missing from a, or an empty string; an attachments list only when missing
MissingOrEmptyString(a, key) ==
    \/ key \notin DOMAIN a
    \/ key # "attachments" /\ a[key] = ""

\* C1 as stated: for every tool with required arguments, a call in which a
\* required argument is missing or empty returns a text error and issues no
\* outbound request.
C1_AsStated ==
    (InCall /\ name \in ToolsWithRequired
        /\ \E k \in CheckedKeys(name) : MissingOrEmpty(arguments, k))
    => (ErrorReturned /\ ~Issued)

\* C1 amended: for every tool with required arguments, a call in which a
\* required argument (under the key the dispatcher reads) is missing or is the
\* empty string, or in which set_memo_attachments has no attachments argument,
\* returns a text error and issues no outbound request; an empty attachments
\* list is not rejected.
C1_Validation ==
    (InCall /\ name \in ToolsWithRequired
        /\ \E k \in CheckedKeys(name) : MissingOrEmptyString(arguments, k))
    => (ErrorReturned /\ ~Issued)

C1_Witness ==
    /\ name = "update_attachment"
    /\ "attachmentId" \in DOMAIN arguments /\ arguments["attachmentId"] = "attachments/9"
    /\ "updateMask" \in DOMAIN arguments /\ arguments["updateMask"] = ""
    /\ ErrorReturned
    /\ ~Issued

\* C2: handle_call_tool never raises: whatever the tool name, the arguments
\* and the outcome of the outbound request, the call ends by returning a
\* non-empty list of text content blocks.
C2_NeverRaises ==
    /\ ~response.raised
    /\ pc = "done" =>
        /\ Len(response.content) >= 1
        /\ \A i \in 1..Len(response.content) : response.content[i].type = "text"

C2_Witness ==
    /\ pc = "done"
    /\ reply # <<>> /\ reply[1].kind = "failure"
    /\ response = Returned(<<TextContent("Error: All connection attempts failed")>>)

\* C3: a call that names a known tool and passes the required-argument
\* validation issues exactly one outbound request, whether the request
\* succeeds or fails; no call ever issues a second request.
C3_ExactlyOneRequest ==
    /\ Len(requests) <= 1
    /\ (InCall /\ name \in Tools
            /\ \A k \in CheckedKeys(name) : ~MissingOrEmptyString(arguments, k))
        => Len(requests) = 1

C3_Witness ==
    /\ pc = "done"
    /\ name = "get_memo"
    /\ reply # <<>> /\ reply[1].kind = "failure"
    /\ Len(requests) = 1


\* the payload of the request the current call issued
Body == requests[1].json[1]
\* the query parameters of the request the current call issued
Params == requests[1].params

BodyTools ==
    {"create_memo", "update_memo", "set_memo_attachments", "create_attachment",
     "update_attachment"}

\* C4 as stated: for every operation that sends a JSON body, a field absent
\* from the caller's input is absent from the outbound body.
C4_AsStated ==
    (Issued /\ name \in BodyTools)
    => \A k \in DOMAIN Body : k \in DOMAIN arguments

\* C4 amended: for every operation that sends a JSON body, a field absent from
\* the caller's input is absent from the outbound body, except visibility and
\* state of create_memo (always sent, with their defaults when absent) and
\* name of set_memo_attachments (always sent, derived from memoId).
C4_AbsentStaysAbsent ==
    (Issued /\ name \in BodyTools)
    => /\ Len(requests[1].json) = 1
       /\ \A k \in DOMAIN Body :
            \/ k \in DOMAIN arguments
            \/ name = "create_memo" /\ k \in {"visibility", "state"}
            \/ name = "set_memo_attachments" /\ k = "name"

C4_Witness ==
    /\ Issued
    /\ name = "create_attachment"
    /\ DOMAIN arguments = {"filename", "type", "externalLink"}
    /\ DOMAIN Body = {"filename", "type", "externalLink"}

\* The fields an update operation can change, under their API-facing names.
UpdatableFields(n) ==
    IF n = "update_memo"
    THEN {"content", "visibility", "state", "pinned", "createTime", "updateTime",
          "displayTime", "attachments", "relations", "property", "location"}
    ELSE {"filename", "type", "content", "externalLink", "memo"}

\* C5: for update_memo and update_attachment the keys of the PATCH body are
\* exactly the updatable fields the caller supplied; update_memo called with
\* only an identifier and content sends a body whose only key is content.
C5_ExactUpdateBody ==
    (Issued /\ name \in {"update_memo", "update_attachment"})
    => /\ requests[1].method = "PATCH"
       /\ Len(requests[1].json) = 1
       /\ DOMAIN Body = DOMAIN arguments \cap UpdatableFields(name)
       /\ (name = "update_memo" /\ DOMAIN arguments = {"memoId", "content"})
            => Body = [content |-> arguments["content"]]

C5_Witness ==
    /\ Issued
    /\ name = "update_memo"
    /\ DOMAIN arguments = {"memoId", "content"}
    /\ Body = [content |-> "hello"]

\* The optional query parameters of each list operation.
QueryKeys(n) ==
    CASE n = "list_memos" ->
            {"pageSize", "pageToken", "state", "orderBy", "filter", "showDeleted"}
      [] n = "list_memo_attachments" -> {"pageSize", "pageToken"}
      [] n = "list_attachments" -> {"pageSize", "pageToken", "filter", "orderBy"}

ListTools == {"list_memos", "list_memo_attachments", "list_attachments"}

\* C6: for the list operations, a parameter the caller omitted is no key of
\* the outbound query parameters and every parameter the caller supplied is
\* one, under its camelCase name.
C6_QueryParams ==
    (Issued /\ name \in ListTools)
    => /\ requests[1].method = "GET"
       /\ DOMAIN Params = DOMAIN arguments \cap QueryKeys(name)
       /\ \A k \in DOMAIN Params \ {"state", "showDeleted"} : Params[k] = arguments[k]

C6_Witness ==
    /\ Issued
    /\ name = "list_attachments"
    /\ DOMAIN arguments = {"pageSize", "orderBy"}
    /\ arguments["pageSize"] = 0
    /\ DOMAIN Params = {"pageSize", "orderBy"}

\* The enum values as the remote API spells them.
PrefixedVisibility(v) ==
    CASE v = "PRIVATE" -> "VISIBILITY_PRIVATE"
      [] v = "PROTECTED" -> "VISIBILITY_PROTECTED"
      [] v = "PUBLIC" -> "VISIBILITY_PUBLIC"
PrefixedState(v) ==
    CASE v = "NORMAL" -> "STATE_NORMAL"
      [] v = "ARCHIVED" -> "STATE_ARCHIVED"

\* C7: a visibility or state value that is sent (create_memo and update_memo
\* bodies, list_memos state parameter) is the caller's value, or the default,
\* with VISIBILITY_ respectively STATE_ prepended exactly once.
C7_EnumPrefix ==
    /\ (Issued /\ name = "create_memo")
        => /\ Body["visibility"]
                = PrefixedVisibility(Get(arguments, "visibility", "PRIVATE"))
           /\ Body["state"] = PrefixedState(Get(arguments, "state", "NORMAL"))
    /\ (Issued /\ name = "update_memo")
        => /\ "visibility" \in DOMAIN Body
                => Body["visibility"] = PrefixedVisibility(arguments["visibility"])
           /\ "state" \in DOMAIN Body
                => Body["state"] = PrefixedState(arguments["state"])
    /\ (Issued /\ name = "list_memos" /\ "state" \in DOMAIN Params)
        => Params["state"] = PrefixedState(arguments["state"])

C7_Witness ==
    /\ Issued
    /\ name = "list_memos"
    /\ "state" \in DOMAIN arguments /\ arguments["state"] = "ARCHIVED"
    /\ Params["state"] = "STATE_ARCHIVED"

\* C8: identifier normalization is idempotent, for format_memo_id and for the
\* attachment tools' inline normalization: normalizing a normalized identifier
\* changes nothing, and an identifier without the prefix is returned unchanged.
C8_Idempotent ==
    /\ Len(normHist) = 3 => normHist[3] = normHist[2]
    /\ (Len(normHist) >= 2 /\ ~startswith(normHist[1], normKind \o "/"))
        => normHist[2] = normHist[1]

C8_Witness == normKind = "memos" /\ normHist = <<"memos/memos/7", "7", "7">>

\* C9: the normalizer's result is the input without its leading resource-type
\* prefix when the input starts with that prefix, and the input otherwise.
C9_StripsPrefix ==
    Len(normHist) >= 2
    => normHist[2] =
        IF startswith(normHist[1], normKind \o "/")
        THEN SubSeq(normHist[1], Len(normKind) + 2, Len(normHist[1]))
        ELSE normHist[1]

\* C10: create_memo called with only a non-empty content sends a body of
\* exactly three keys: the caller's content, visibility VISIBILITY_PRIVATE and
\* state STATE_NORMAL.
C10_CreateDefaults ==
    (InCall /\ name = "create_memo" /\ DOMAIN arguments = {"content"}
        /\ arguments["content"] # "")
    => /\ Len(requests) = 1
       /\ requests[1].json =
            <<[content |-> arguments["content"],
               visibility |-> "VISIBILITY_PRIVATE",
               state |-> "STATE_NORMAL"]>>

C10_Witness ==
    /\ pc = "awaiting"
    /\ name = "create_memo"
    /\ arguments = [content |-> "hello"]
    /\ DOMAIN Body = {"content", "visibility", "state"}

\* str.endswith(suffix)
endswith(s, suffix) ==
    /\ Len(s) >= Len(suffix)
    /\ SubSeq(s, Len(s) - Len(suffix) + 1, Len(s)) = suffix

\* id without the leading "<kind>/" when it has one
WithoutPrefix(kind, id) ==
    IF startswith(id, kind \o "/")
    THEN SubSeq(id, Len(kind) + 2, Len(id))
    ELSE id

\* the remote end answered the pending request with a 2xx status
Succeeded ==
    /\ pc = "done"
    /\ reply # <<>>
    /\ reply[1].kind = "response"
    /\ reply[1].status_code \in 200..299

\* C11: delete_memo called with a non-empty memoId issues exactly one request,
\* a DELETE whose path ends in /memos/ followed by the normalized identifier;
\* when the request succeeds the single text block returned confirms the
\* deletion and ends with the identifier exactly as the caller wrote it.
C11_DeleteMemo ==
    (InCall /\ name = "delete_memo"
        /\ "memoId" \in DOMAIN arguments /\ arguments["memoId"] # "")
    => /\ Len(requests) = 1
       /\ requests[1].method = "DELETE"
       /\ endswith(requests[1].url,
                   "/memos/" \o WithoutPrefix("memos", arguments["memoId"]))
       /\ Succeeded
            => /\ ~response.raised
               /\ Len(response.content) = 1
               /\ response.content[1].type = "text"
               /\ startswith(response.content[1].text, "Successfully deleted memo")
               /\ endswith(response.content[1].text, arguments["memoId"])

C11_Witness ==
    /\ Succeeded
    /\ name = "delete_memo"
    /\ arguments = [memoId |-> "memos/7"]
    /\ requests[1].url = "http://memos.local/api/v1/memos/7"
    /\ response.content[1].text = "Successfully deleted memo: memos/7"

\* sub occurs in s
Contains(s, sub) ==
    \E i \in 1..(Len(s) - Len(sub) + 1) : SubSeq(s, i, i + Len(sub) - 1) = sub

\* the remote end answered the pending request with a status outside 2xx
Refused ==
    /\ pc = "done"
    /\ reply # <<>>
    /\ reply[1].kind = "response"
    /\ reply[1].status_code \notin 200..299

\* C12: for every tool, when the remote end answers the request with a
\* non-2xx status the call returns one text block that contains the status
\* code in decimal and the response body verbatim.
C12_HttpErrorText ==
    (Refused /\ name \in Tools)
    => /\ ~response.raised
       /\ Len(response.content) = 1
       /\ response.content[1].type = "text"
       /\ Contains(response.content[1].text, ToString(reply[1].status_code))
       /\ Contains(response.content[1].text, reply[1].text)

C12_Witness ==
    /\ Refused
    /\ name = "set_memo_attachments"
    /\ reply[1] = HttpResponse(404, "Not Found")
    /\ response.content[1].text = "HTTP Error 404: Not Found"

\* C13: every outbound request carries the header Content-Type:
\* application/json; it carries an Authorization header exactly when
\* MEMOS_API_KEY is a non-empty string, and the header's value is then
\* "Bearer " followed by the key.
C13_Headers ==
    \A i \in 1..Len(requests) :
        LET headers == requests[i].headers
        IN  /\ "Content-Type" \in DOMAIN headers
            /\ headers["Content-Type"] = "application/json"
            /\ ("Authorization" \in DOMAIN headers) <=> (MEMOS_API_KEY # "")
            /\ "Authorization" \in DOMAIN headers
                => headers["Authorization"] = "Bearer " \o MEMOS_API_KEY

C13_Witness ==
    /\ MEMOS_API_KEY = ""
    /\ Issued
    /\ name = "list_attachments"
    /\ DOMAIN requests[1].headers = {"Content-Type"}

\* C15: a call whose tool name is none of the twelve registered names
\* returns a single text block that says the tool is unknown and quotes the
\* name; it issues no outbound request and raises nothing.
C15_UnknownTool ==
    (InCall /\ name \notin Tools)
    => /\ pc = "done"
       /\ requests = <<>>
       /\ ~response.raised
       /\ Len(response.content) = 1
       /\ response.content[1].type = "text"
       /\ startswith(response.content[1].text, "Unknown tool")
       /\ Contains(response.content[1].text, name)

C15_Witness ==
    /\ pc = "done"
    /\ name = "Get_Memo"
    /\ "memoId" \in DOMAIN arguments
    /\ requests = <<>>
    /\ response = Returned(<<TextContent("Unknown tool: Get_Memo")>>)

\* C20: the body of create_memo has the key pinned exactly when the caller
\* passed pinned = true (never for false or for an omitted pinned); the body
\* of update_memo has it exactly when the caller supplied pinned, with the
\* caller's value, false included.
C20_Pinned ==
    /\ (Issued /\ name = "create_memo")
        => /\ ("pinned" \in DOMAIN Body)
                <=> ("pinned" \in DOMAIN arguments /\ arguments["pinned"] = TRUE)
           /\ "pinned" \in DOMAIN Body => Body["pinned"] = TRUE
    /\ (Issued /\ name = "update_memo")
        => /\ ("pinned" \in DOMAIN Body) <=> ("pinned" \in DOMAIN arguments)
           /\ "pinned" \in DOMAIN Body => Body["pinned"] = arguments["pinned"]

C20_Witness ==
    /\ Issued
    /\ name = "update_memo"
    /\ arguments = [memoId |-> "7", pinned |-> FALSE]
    /\ Body = [pinned |-> FALSE]

\* the configuration document for a base URL and the presence of a key
ConfigDocument(base_url, has_api_key) ==
    ((("{\n  \"base_url\": \"" \o base_url) \o "\",\n  \"has_api_key\": ")
        \o (IF has_api_key THEN "true" ELSE "false")) \o "\n}"

\* C14: reading memos://config never discloses the API key: the text returned
\* is determined by the base URL and by whether a key is configured, so two
\* configurations with the same base URL and different non-empty keys yield
\* the same text, and the key does not occur in it.
C14_ConfigHidesKey ==
    (pc = "read" /\ uri = "memos://config")
    => /\ ~contents.raised
       /\ requests = <<>>
       /\ contents.text = ConfigDocument(MEMOS_BASE_URL, MEMOS_API_KEY # "")
       /\ MEMOS_API_KEY # "" => ~Contains(contents.text, MEMOS_API_KEY)

C14_Witness ==
    /\ pc = "read"
    /\ uri = "memos://config"
    /\ MEMOS_API_KEY = "hunter2"
    /\ MEMOS_BASE_URL = "http://memos.local/"
    /\ contents.text = "{\n  \"base_url\": \"http://memos.local/\",\n  \"has_api_key\": true\n}"

\* a resource read is in progress or has just ended
InRead == pc \in {"reading", "read"}

\* C16 as stated: reading a resource URI other than memos://memos and
\* memos://config ends with a message returned to the caller, not with a
\* raised fault.
C16_AsStated ==
    (pc = "read" /\ uri \notin ResourceUris) => ~contents.raised

\* C16 amended: reading a resource URI other than memos://memos and
\* memos://config issues no outbound request and raises a ValueError whose
\* message is "Unknown resource: " followed by the URI; nothing is returned.
C16_UnknownResourceRaises ==
    (InRead /\ uri \notin ResourceUris)
    => /\ pc = "read"
       /\ requests = <<>>
       /\ contents.raised
       /\ contents.text = "Unknown resource: " \o uri

C16_Witness ==
    /\ pc = "read"
    /\ uri = "memos://memos/"
    /\ contents = [raised |-> TRUE, text |-> "Unknown resource: memos://memos/"]

\* C19: reading memos://memos issues exactly one request, a GET to
\* /api/v1/memos under the base URL whose query parameters are exactly
\* pageSize = 100; it returns the serialized result when the request succeeds
\* with a JSON document, and a JSON document with the key error, as a value
\* and not as a raised fault, when the request fails in any way.
C19_ReadMemos ==
    (InRead /\ uri = "memos://memos")
    => /\ Len(requests) = 1
       /\ requests[1].method = "GET"
       /\ requests[1].url = "http://memos.local/api/v1/memos"
       /\ requests[1].params = [pageSize |-> 100]
       /\ requests[1].json = <<>>
       /\ pc = "read"
            => /\ ~contents.raised
               /\ IF reply[1] = HttpResponse(200, JsonBody)
                  THEN contents.text = "{\n  \"name\": \"memos/7\"\n}"
                  ELSE /\ startswith(contents.text, "{\"error\": \"")
                       /\ endswith(contents.text, "\"}")

C19_Witness ==
    /\ pc = "read"
    /\ uri = "memos://memos"
    /\ reply = <<TransportFailure("All connection attempts failed")>>
    /\ requests[1].params = [pageSize |-> 100]
    /\ contents = [raised |-> FALSE,
                   text |-> "{\"error\": \"All connection attempts failed\"}"]

\* The method of each operation in the operation table.
OperationMethod(n) ==
    CASE n \in {"create_memo", "create_attachment"} -> "POST"
      [] n \in {"update_memo", "set_memo_attachments", "update_attachment"} -> "PATCH"
      [] n \in {"delete_memo", "delete_attachment"} -> "DELETE"
      [] OTHER -> "GET"

\* The path of each operation in the operation table, {id} replaced by the
\* caller's identifier without its resource-type prefix.
OperationPath(n, a) ==
    CASE n \in {"create_memo", "list_memos"} -> "/api/v1/memos"
      [] n \in {"get_memo", "update_memo", "delete_memo"} ->
            "/api/v1/memos/" \o WithoutPrefix("memos", a["memoId"])
      [] n = "list_memo_attachments" ->
            ("/api/v1/memos/" \o WithoutPrefix("memos", a["memo_id"])) \o "/attachments"
      [] n = "set_memo_attachments" ->
            ("/api/v1/memos/" \o WithoutPrefix("memos", a["memoId"])) \o "/attachments"
      [] n = "create_attachment" ->
            IF "attachmentId" \in DOMAIN a
            THEN "/api/v1/attachments?attachmentId=" \o a["attachmentId"]
            ELSE "/api/v1/attachments"
      [] n = "list_attachments" -> "/api/v1/attachments"
      [] n \in {"get_attachment", "delete_attachment"} ->
            "/api/v1/attachments/" \o WithoutPrefix("attachments", a["attachmentId"])
      [] n = "update_attachment" ->
            (("/api/v1/attachments/" \o WithoutPrefix("attachments", a["attachmentId"]))
                \o "?updateMask=") \o a["updateMask"]

\* C17: for every tool and every argument bag that passes validation, the
\* outbound request has the method of the operation table and, under the
\* base URL, the path of the operation table with {id} replaced by the
\* normalized identifier; update_attachment's path carries the caller's
\* updateMask in its query.
C17_MethodAndPath ==
    (Issued /\ name \in Tools)
    => /\ requests[1].method = OperationMethod(name)
       /\ requests[1].url = "http://memos.local" \o OperationPath(name, arguments)

\* the attachment fields the remote end assigns
ServerAssigned == {"size", "createTime"}

AttachmentListTools == {"create_memo", "update_memo", "set_memo_attachments"}

\* the body of create_attachment and of update_attachment has no
\* server-assigned field
NoServerAssignedInBody ==
    (Issued /\ name \in {"create_attachment", "update_attachment"})
    => /\ Len(requests[1].json) = 1
       /\ DOMAIN Body \cap ServerAssigned = {}

\* C18 as stated: no outbound request carries size or createTime for an
\* attachment, neither in the body of create_attachment and update_attachment
\* nor in any attachment object of the attachments list sent by
\* set_memo_attachments, create_memo and update_memo.
C18_AsStated ==
    /\ NoServerAssignedInBody
    /\ (Issued /\ name \in AttachmentListTools /\ "attachments" \in DOMAIN Body)
        => \A i \in 1..Len(Body["attachments"]) :
                DOMAIN Body["attachments"][i] \cap ServerAssigned = {}

\* C18 amended: the body of create_attachment and of update_attachment never
\* has the key size or createTime, whatever the caller passes; the attachments
\* list sent by set_memo_attachments, create_memo and update_memo is the
\* caller's list unchanged, so an attachment object in it has size or
\* createTime exactly when the caller's object has.
C18_ServerAssignedFields ==
    /\ NoServerAssignedInBody
    /\ (Issued /\ name \in AttachmentListTools /\ "attachments" \in DOMAIN Body)
        => Body["attachments"] = arguments["attachments"]

C18_Witness ==
    /\ Issued
    /\ name = "set_memo_attachments"
    /\ arguments["attachments"] = <<StoredAttachment>>
    /\ Body["attachments"][1]["size"] = 10

\* C21: every set_memo_attachments request has a body with exactly the keys
\* name and attachments; name is "memos/" followed by the normalized
\* identifier, the same one that stands in the request path between
\* /api/v1/memos/ and /attachments; attachments is the caller's list
\* unchanged; when the request succeeds the text returned states the length
\* of that list.
C21_SetAttachmentsBody ==
    (Issued /\ name = "set_memo_attachments")
    => LET id == WithoutPrefix("memos", arguments["memoId"])
       IN  /\ Len(requests[1].json) = 1
           /\ DOMAIN Body = {"name", "attachments"}
           /\ Body["name"] = "memos/" \o id
           /\ requests[1].url =
                ("http://memos.local/api/v1/memos/" \o id) \o "/attachments"
           /\ Body["attachments"] = arguments["attachments"]
           /\ Succeeded
                => /\ Len(response.content) = 1
                   /\ startswith(response.content[1].text,
                        ("Successfully set "
                            \o ToString(Len(arguments["attachments"]))) \o " attachment")

\* calls i and j, both in progress or returned, have the same tool name and
\* the same arguments
SameCall(i, j) ==
    /\ tasks[i].pc # "idle"
    /\ tasks[j].pc # "idle"
    /\ tasks[i].name = tasks[j].name
    /\ tasks[i].arguments = tasks[j].arguments

\* Two calls with the same name and arguments have issued the same requests,
\* and once both have returned after the same reply (or both before any
\* request) they have returned the same response, whatever ran in between.
Determined ==
    \A i, j \in Tasks :
        SameCall(i, j)
        => /\ tasks[i].requests = tasks[j].requests
           /\ (tasks[i].pc = "done" /\ tasks[j].pc = "done"
                    /\ tasks[i].reply = tasks[j].reply)
                => tasks[i].response = tasks[j].response

\* C22: calls share no mutable state: under every interleaving of tool calls
\* at their suspension points, and every sequence of them, the request and
\* the response of a call are determined by its own name and arguments, the
\* configuration and the reply to its own request; and no step of any call
\* changes MEMOS_BASE_URL or MEMOS_API_KEY.
C22_NoSharedState ==
    /\ []Determined
    /\ [][MEMOS_BASE_URL' = MEMOS_BASE_URL /\ MEMOS_API_KEY' = MEMOS_API_KEY]_vars

C22_Witness ==
    /\ tasks[1].pc = "done"
    /\ tasks[1].name = "delete_memo" /\ tasks[1].arguments = [memoId |-> "memos/7"]
    /\ tasks[2].pc = "awaiting"
    /\ tasks[2].name = "delete_memo" /\ tasks[2].arguments = [memoId |-> "7"]
    /\ tasks[1].requests = tasks[2].requests
    /\ tasks[1].response = Returned(<<TextContent("Successfully deleted memo: memos/7")>>)

\* A call is suspended only while its single request is pending, it never
\* issues a second request, and it returns one text block.
SingleSuspension ==
    /\ pc = "awaiting" => (Len(requests) = 1 /\ reply = <<>>)
    /\ pc = "done"
        => /\ Len(requests) <= 1
           /\ Len(requests) = Len(reply)
           /\ ~response.raised
           /\ Len(response.content) = 1

\* C23: every tool call eventually returns exactly one response: it is
\* suspended at no point other than its single outbound request, and it
\* resumes and returns once that request is answered, fails or times out,
\* without sending the request again.
C23_EventuallyReturns ==
    /\ (pc = "awaiting") ~> (pc = "done")
    /\ []SingleSuspension

C23_Witness ==
    /\ pc = "done"
    /\ name = "list_memos"
    /\ reply = <<TransportFailure("")>>
    /\ Len(requests) = 1
    /\ response = Returned(<<TextContent("Error: ")>>)

\* C24: for every declared tool, a call that gives a non-empty value to each
\* argument the tool's input schema lists under required, under the names of
\* that schema, passes the dispatcher's validation and issues the outbound
\* request.
C24_SchemaNamesAccepted ==
    (InCall /\ name \in Tools
        /\ \A k \in inputSchema_required(name) : ~MissingOrEmpty(arguments, k))
    => /\ Len(requests) = 1
       /\ ~(reply = <<>> /\ ErrorReturned)

\* The tools that address one memo or one attachment, and the argument in
\* which their branch reads its identifier.
NamedResourceTools ==
    {"get_memo", "update_memo", "delete_memo", "list_memo_attachments",
     "set_memo_attachments", "get_attachment", "update_attachment",
     "delete_attachment"}

IdentifierKey(n) ==
    CASE n = "list_memo_attachments" -> "memo_id"
      [] n \in {"get_attachment", "update_attachment", "delete_attachment"}
            -> "attachmentId"
      [] OTHER -> "memoId"

\* The URLs of the two collections, with and without the closing slash.
CollectionUrls ==
    {"http://memos.local/api/v1/memos", "http://memos.local/api/v1/memos/",
     "http://memos.local/api/v1/attachments", "http://memos.local/api/v1/attachments/"}

\* C25: whenever a tool that targets a named memo or attachment issues its
\* request, the identifier put into the request path is non-empty: an
\* identifier that passed the non-empty validation is non-empty after
\* normalization, so the request never targets a collection path.
C25_IdentifierNonEmpty ==
    (Issued /\ name \in NamedResourceTools)
    => /\ normalize_id(IF IdentifierKey(name) = "attachmentId"
                       THEN "attachments" ELSE "memos",
                       arguments[IdentifierKey(name)]) # ""
       /\ requests[1].url \notin CollectionUrls
       /\ \A c \in CollectionUrls : ~startswith(requests[1].url, c \o "?")

=============================================================================
